---- MODULE Spec2Model ----
(***************************************************************************)
(* A model of spotify_player_v2.py: URI normalisation, the two mapping     *)
(* loaders, the one-shot playlist synchronisation, main() and the Flask    *)
(* page handler.                                                           *)
(*                                                                         *)
(* Python strings are sequences of one-character strings, so that strip,   *)
(* split and substring tests are computed as str.strip, str.split and      *)
(* `in` compute them.                                                      *)
(***************************************************************************)
EXTENDS Integers, Sequences, FiniteSets, TLC

VARIABLES
    pc,         \* position of main(): the statement it is about to run
    env,        \* the process environment and the files main() looks at
    table,      \* the rows of the sheet / the delimited file (external input)
    mapping,    \* main's `mapping`: track URI -> contributor
    ordered,    \* main's `ordered`: the URIs in row order
    exitMsg,    \* how main() ended early: "" while it has not
    steps,      \* what main() has performed so far, in order
    rendered,   \* template arguments of the last page rendered
    current,    \* the last answer of sp.current_playback()
    contrib_imgs, \* create_app's contributor_image_mapping
    playlist,   \* the remote playlist: its items in order
    playlist0,  \* the remote playlist when the running sync started
    existing,   \* sync_playlist_once: `existing`
    offset,     \* sync_playlist_once: `offset`
    to_add,     \* sync_playlist_once: `to_add`
    idx,        \* sync_playlist_once: the loop variable `i` of the batch loop
    calls,      \* the Spotify playlist calls of the running sync, in order
    runs,       \* how many times sync_playlist_once has been entered
    raw,        \* inputs handed to normalize_uri, one after the other
    norm,       \* the outcomes of normalize_uri on raw, in order
    parsed,     \* outcome of parse_sheet_rows on table
    csvLoaded   \* outcome of load_csv_mapping on table written as a file

vars == <<pc, env, table, mapping, ordered, exitMsg, steps, rendered,
          current, contrib_imgs, playlist, playlist0, existing, offset,
          to_add, idx, calls, runs, raw, norm, parsed, csvLoaded>>

-----------------------------------------------------------------------------
(* Strings *)

Whitespace == {" ", "\t"}

S_open_spotify_com ==
    <<"o","p","e","n",".","s","p","o","t","i","f","y",".","c","o","m">>
S_track_marker == <<"/","t","r","a","c","k","/">>
S_spotify_track == <<"s","p","o","t","i","f","y",":","t","r","a","c","k",":">>
S_https == <<"h","t","t","p","s",":","/","/">>
S_name == <<"n","a","m","e">>
S_spotify_link == <<"s","p","o","t","i","f","y","_","l","i","n","k">>
S_Anonymous == <<"A","n","o","n","y","m","o","u","s">>
S_someone == <<"s","o","m","e","o","n","e">>

\* s[i..] starts with pat
MatchAt(s, pat, i) ==
    /\ i + Len(pat) - 1 <= Len(s)
    /\ \A k \in 1..Len(pat) : s[i + k - 1] = pat[k]

\* str.find(pat) + 1: the first position where pat occurs in s, 0 when none
Find(s, pat) ==
    LET hits == {i \in 1..Len(s) : MatchAt(s, pat, i)}
    IN  IF hits = {} THEN 0 ELSE CHOOSE i \in hits : \A j \in hits : i <= j

\* pat in s
Contains(s, pat) == Find(s, pat) # 0

\* s.split(sep): the pieces between the non-overlapping occurrences of sep,
\* found left to right
RECURSIVE Split(_, _)
Split(s, sep) ==
    LET i == Find(s, sep)
    IN  IF i = 0
        THEN <<s>>
        ELSE <<SubSeq(s, 1, i - 1)>> \o Split(SubSeq(s, i + Len(sep), Len(s)), sep)

\* s.strip()
Strip(s) ==
    LET keep == {i \in 1..Len(s) : s[i] \notin Whitespace}
    IN  IF keep = {}
        THEN <<>>
        ELSE LET lo == CHOOSE i \in keep : \A j \in keep : i <= j
                 hi == CHOOSE i \in keep : \A j \in keep : i >= j
             IN  SubSeq(s, lo, hi)

-----------------------------------------------------------------------------
(* normalize_uri *)

Ok(v) == [err |-> "none", val |-> v]
Raise(e) == [err |-> e]

\* Faulty variant: the query suffix is not cut off.
normalize_uri_keeps_query(rawStr) ==
    LET uri == Strip(rawStr)
    IN  IF Contains(uri, S_open_spotify_com)
        THEN LET parts == Split(uri, S_track_marker)
             IN  IF Len(parts) < 2
                 THEN Raise("ValueError")
                 ELSE Ok(S_spotify_track \o Split(parts[2], <<"/">>)[1])
        ELSE Ok(uri)

normalize_uri(rawStr) ==
    LET uri == Split(Strip(rawStr), <<"?">>)[1]
    IN  IF Contains(uri, S_open_spotify_com)
        THEN LET parts == Split(uri, S_track_marker)
             IN  IF Len(parts) < 2
                 THEN Raise("ValueError")
                 ELSE Ok(S_spotify_track \o Split(parts[2], <<"/">>)[1])
        ELSE Ok(uri)

-----------------------------------------------------------------------------
(* parse_sheet_rows *)

EmptyMap == [u \in {} |-> <<>>]

\* mapping[k] = v
Put(m, k, v) == [x \in DOMAIN m \cup {k} |-> IF x = k THEN v ELSE m[x]]

\* list.index(x) + 1: the first position of x in list, 0 for ValueError
Index(list, x) ==
    LET hits == {i \in 1..Len(list) : list[i] = x}
    IN  IF hits = {} THEN 0 ELSE CHOOSE i \in hits : \A j \in hits : i <= j

Max(a, b) == IF a >= b THEN a ELSE b

\* row[name_idx].strip() or "Anonymous"
Contributor(cell) == IF Strip(cell) = <<>> THEN S_Anonymous ELSE Strip(cell)

\* Faulty variant: a duplicate row keeps the first contributor.
StoreRow_first_wins(acc, name, link) ==
    IF link = <<>>
    THEN acc
    ELSE LET n == normalize_uri(link)
         IN  IF n.err # "none"
             THEN acc
             ELSE [mapping |-> IF n.val \in DOMAIN acc.mapping
                               THEN acc.mapping
                               ELSE Put(acc.mapping, n.val, Contributor(name)),
                   ordered |-> Append(acc.ordered, n.val)]

\* The body both loaders share once the two cells of a row are known:
\* skip a blank link, skip a link normalize_uri rejects, else store the row.
\* `name` is the raw name cell, `link` the stripped link cell.
StoreRow(acc, name, link) ==
    IF link = <<>>
    THEN acc
    ELSE LET n == normalize_uri(link)
         IN  IF n.err # "none"
             THEN acc
             ELSE [mapping |-> Put(acc.mapping, n.val, Contributor(name)),
                   ordered |-> Append(acc.ordered, n.val)]

\* for row in rows[1:], from data row k on; name_idx and link_idx count from 1
RECURSIVE parse_data_rows(_, _, _, _, _)
parse_data_rows(rows, k, name_idx, link_idx, acc) ==
    IF k > Len(rows)
    THEN acc
    ELSE LET row == rows[k]
             next == IF Len(row) < Max(name_idx, link_idx)
                     THEN acc
                     ELSE StoreRow(acc, row[name_idx], Strip(row[link_idx]))
         IN  parse_data_rows(rows, k + 1, name_idx, link_idx, next)

parse_sheet_rows(rows) ==
    IF rows = <<>>
    THEN Ok([mapping |-> EmptyMap, ordered |-> <<>>])
    ELSE LET header == [j \in 1..Len(rows[1]) |-> Strip(rows[1][j])]
             name_idx == Index(header, S_name)
             link_idx == Index(header, S_spotify_link)
         IN  IF name_idx = 0 \/ link_idx = 0
             THEN Raise("KeyError")
             ELSE Ok(parse_data_rows(rows, 2, name_idx, link_idx,
                                     [mapping |-> EmptyMap, ordered |-> <<>>]))

-----------------------------------------------------------------------------
(* load_csv_mapping *)

RECURSIVE Join(_, _)
Join(pieces, sep) ==
    IF pieces = <<>> THEN <<>>
    ELSE IF Len(pieces) = 1 THEN pieces[1]
    ELSE pieces[1] \o sep \o Join(Tail(pieces), sep)

\* The table as a delimited file: cells joined by commas, one line per row.
\* The cells of the model hold no comma, quote or line break, so no cell is
\* quoted.
RECURSIVE CsvFile(_)
CsvFile(rows) ==
    IF rows = <<>> THEN <<>>
    ELSE Join(rows[1], <<",">>) \o <<"\n">> \o CsvFile(Tail(rows))

\* csv.reader(fh): one list of fields per line, [] for an empty line
csv_reader(text) ==
    LET pieces == Split(text, <<"\n">>)
        lines == IF pieces[Len(pieces)] = <<>>
                 THEN SubSeq(pieces, 1, Len(pieces) - 1)
                 ELSE pieces
    IN  [k \in 1..Len(lines) |->
            IF lines[k] = <<>> THEN <<>> ELSE Split(lines[k], <<",">>)]

\* (row.get(col) or "") for the dict csv.DictReader builds from a line:
\* dict(zip(fieldnames, fields)), then None for the field names beyond the
\* line's fields; of two columns with one name the later one wins.
RowGet(fieldnames, fields, col) ==
    LET hits == {j \in 1..Len(fieldnames) : fieldnames[j] = col}
    IN  IF hits = {}
        THEN <<>>
        ELSE LET j == CHOOSE i \in hits : \A h \in hits : i >= h
             IN  IF j <= Len(fields) THEN fields[j] ELSE <<>>

\* for row in reader, from line k on; DictReader passes over empty lines
RECURSIVE load_csv_rows(_, _, _, _)
load_csv_rows(lines, k, fieldnames, acc) ==
    IF k > Len(lines)
    THEN acc
    ELSE LET next == IF lines[k] = <<>>
                     THEN acc
                     ELSE StoreRow(acc, RowGet(fieldnames, lines[k], S_name),
                                   Strip(RowGet(fieldnames, lines[k], S_spotify_link)))
         IN  load_csv_rows(lines, k + 1, fieldnames, next)

\* load_csv_mapping on the file `text`; DictReader takes the first line as
\* the field names
load_csv_mapping(text) ==
    LET lines == csv_reader(text)
    IN  IF lines = <<>>
        THEN Ok([mapping |-> EmptyMap, ordered |-> <<>>])
        ELSE Ok(load_csv_rows(lines, 2, lines[1],
                              [mapping |-> EmptyMap, ordered |-> <<>>]))

-----------------------------------------------------------------------------
(* Inputs *)

MaxRows == 2        \* data rows of a table
MaxDesired == 3     \* length of an enumerated desired list
MaxRemote == 3      \* items of the remote playlist before the sync
PageLimit == 2      \* items the playlist endpoint returns per page
MaxRuns == 2        \* calls of sync_playlist_once by one caller

\* all sequences over S of length at most n
SeqsUpTo(S, n) == UNION {[1..k -> S] : k \in 0..n}

DigitChar == <<"0","1","2","3","4","5","6","7","8","9">>

RECURSIVE Digits(_)
Digits(n) ==
    IF n < 10 THEN <<DigitChar[n + 1]>>
    ELSE Digits(n \div 10) \o <<DigitChar[(n % 10) + 1]>>

\* spotify:track:<n>
TrackUri(n) == S_spotify_track \o Digits(n)

\* https://open.spotify.com/track/<n>
TrackUrl(n) == S_https \o S_open_spotify_com \o S_track_marker \o Digits(n)

S_query == <<"?","s","i","=","a","b","c">>
S_album_url ==
    S_https \o S_open_spotify_com \o <<"/","a","l","b","u","m","/","9">>

\* an item of the remote playlist: a track, or an item without one
TrackItem(u) == [has |-> TRUE, uri |-> u]
NoTrackItem == [has |-> FALSE, uri |-> <<>>]

HasTrack(it) == it.has

\* [it["track"]["uri"] for it in items if it.get("track")]
TrackUris(items) ==
    LET kept == SelectSeq(items, HasTrack)
    IN  [k \in 1..Len(kept) |-> kept[k].uri]

Elems(seq) == {seq[k] : k \in 1..Len(seq)}

Count(seq, x) == Cardinality({k \in 1..Len(seq) : seq[k] = x})

-----------------------------------------------------------------------------
(* sync_playlist_once *)

chunk == 100

Min(a, b) == IF a <= b THEN a ELSE b

\* Faulty variant: the offset is not passed on, every call reads the first page.
playlist_items_first_page(off) ==
    [items |-> SubSeq(playlist, 1, Min(PageLimit, Len(playlist))),
     next |-> off + PageLimit < Len(playlist)]

\* sp.playlist_items(playlist_id, offset=offset): the page at `offset` and
\* whether the response carries a next-page cursor
playlist_items(off) ==
    [items |-> SubSeq(playlist, off + 1, Min(off + PageLimit, Len(playlist))),
     next |-> off + PageLimit < Len(playlist)]

\* Faulty variant: nothing is filtered out.
Missing_all(track_uris, have) == track_uris

\* [uri for uri in track_uris if uri not in existing]
Missing(track_uris, have) ==
    LET absent(uri) == uri \notin Elems(have)
    IN  SelectSeq(track_uris, absent)

ReadCall(off) == [op |-> "playlist_items", offset |-> off, uris |-> <<>>]
AddCall(batch) == [op |-> "playlist_add_items", offset |-> 0, uris |-> batch]

\* the URIs handed to playlist_add_items, concatenated over the calls
RECURSIVE Added(_)
Added(cs) ==
    IF cs = <<>> THEN <<>>
    ELSE (IF cs[1].op = "playlist_add_items" THEN cs[1].uris ELSE <<>>)
         \o Added(Tail(cs))

AddCalls(cs) == {k \in 1..Len(cs) : cs[k].op = "playlist_add_items"}

\* sync_playlist_once is entered: existing = [], offset = 0
SyncEnter ==
    /\ pc = "sync"
    /\ existing' = <<>>
    /\ offset' = 0
    /\ to_add' = <<>>
    /\ idx' = 0
    /\ calls' = <<>>
    /\ playlist0' = playlist
    /\ runs' = runs + 1
    /\ steps' = Append(steps, "sync_playlist_once")
    /\ pc' = "sync_read"
    /\ UNCHANGED <<env, table, mapping, ordered, exitMsg, rendered,
                   current, contrib_imgs, playlist, raw, norm, parsed, csvLoaded>>

\* Faulty variant: the offset advances by the tracks collected, not by the
\* items of the page.
NextOffset_counts_tracks(off, items) == off + Len(TrackUris(items))

\* offset += len(resp["items"])
NextOffset(off, items) == off + Len(items)

\* one turn of the `while True` loop: read a page, collect its track URIs
SyncReadPage ==
    /\ pc = "sync_read"
    /\ LET resp == playlist_items(offset)
       IN  /\ existing' = existing \o TrackUris(resp.items)
           /\ calls' = Append(calls, ReadCall(offset))
           /\ IF resp.next
              THEN offset' = NextOffset(offset, resp.items) /\ pc' = "sync_read"
              ELSE offset' = offset /\ pc' = "sync_diff"
    /\ UNCHANGED <<env, table, mapping, ordered, exitMsg, steps, rendered,
                   current, contrib_imgs, playlist, playlist0, to_add, idx, runs,
                   raw, norm, parsed, csvLoaded>>

\* to_add is computed; the function returns when it is empty
SyncDiff ==
    /\ pc = "sync_diff"
    /\ to_add' = Missing(ordered, existing)
    /\ pc' = IF to_add' = <<>> THEN "sync_done" ELSE "sync_add"
    /\ UNCHANGED <<env, table, mapping, ordered, exitMsg, steps, rendered,
                   current, contrib_imgs, playlist, playlist0, existing, offset, idx,
                   calls, runs, raw, norm, parsed, csvLoaded>>

\* Faulty variant: a batch goes to the head of the playlist.
playlist_add_items_at_head(batch) ==
    [k \in 1..Len(batch) |-> TrackItem(batch[k])] \o playlist

\* sp.playlist_add_items(playlist_id, batch): the playlist after the call
playlist_add_items(batch) ==
    playlist \o [k \in 1..Len(batch) |-> TrackItem(batch[k])]

\* Faulty variant: the slice ends one element late.
Batch_one_more(list, i) == SubSeq(list, i + 1, Min(i + chunk + 1, Len(list)))

\* to_add[i : i + chunk]
Batch(list, i) == SubSeq(list, i + 1, Min(i + chunk, Len(list)))

\* one turn of `for i in range(0, len(to_add), chunk)`
SyncAddBatch ==
    /\ pc = "sync_add"
    /\ LET batch == Batch(to_add, idx)
       IN  /\ playlist' = playlist_add_items(batch)
           /\ calls' = Append(calls, AddCall(batch))
    /\ idx' = idx + chunk
    /\ pc' = IF idx + chunk < Len(to_add) THEN "sync_add" ELSE "sync_done"
    /\ UNCHANGED <<env, table, mapping, ordered, exitMsg, steps, rendered,
                   current, contrib_imgs, playlist0, existing, offset, to_add, runs,
                   raw, norm, parsed, csvLoaded>>

-----------------------------------------------------------------------------
(* create_app: the page handler *)

S_Alice == <<"A","l","i","c","e">>
S_Song == <<"S","o","n","g">>
S_Art == <<"A","r","t">>
S_Band == <<"B","a","n","d">>
S_cover == <<"h","t","t","p",":","/","/","c","o","v","e","r">>
S_avatar == <<"/","i","m","g","s","/","a",".","p","n","g">>

\* None, and every other value the template treats as false
None == <<>>

\* dict.get(key, default)
Get(m, key, default) == IF key \in DOMAIN m THEN m[key] ELSE default

NoPage ==
    [shown |-> "nothing", track_name |-> None, artists |-> None,
     contributor |-> None, cover_url |-> None, contrib_img |-> None]

\* render_template_string(template, ...): what the template puts on the page.
\* {% if track_name %} chooses between the track and the placeholder; the
\* cover and the avatar are shown when their argument is true.
render_template_string(track_name, artists, contributor, cover_url, contrib_img) ==
    IF track_name # None
    THEN [shown |-> "track", track_name |-> track_name, artists |-> artists,
          contributor |-> contributor, cover_url |-> cover_url,
          contrib_img |-> contrib_img]
    ELSE [shown |-> "placeholder", track_name |-> None, artists |-> None,
          contributor |-> None, cover_url |-> None, contrib_img |-> None]

\* what sp.current_playback() may answer
NoItem == [uri |-> None, name |-> None, artists |-> <<>>, images |-> <<>>]
Items ==
    [uri : {TrackUri(1), TrackUri(2), TrackUri(7)},
     name : {S_Song},
     artists : {<<S_Art, S_Band>>},
     images : {<<>>, <<S_cover>>}]
NoPlayback ==
    [present |-> FALSE, is_playing |-> FALSE, has_item |-> FALSE, item |-> NoItem]
Playbacks ==
    {NoPlayback}
    \cup [present : {TRUE}, is_playing : BOOLEAN, has_item : {TRUE}, item : Items]
    \cup [present : {TRUE}, is_playing : BOOLEAN, has_item : {FALSE}, item : {NoItem}]

\* Faulty variant: the contributor is looked up by track name.
Lookup_by_name(m, item) == Get(m, item.name, S_someone)

\* mapping.get(uri, "someone")
Lookup(m, item) == Get(m, item.uri, S_someone)

\* the page show_now_playing returns for the playback answer
Page(answer) ==
    IF answer.present /\ answer.is_playing /\ answer.has_item
    THEN LET item == answer.item
             contributor == Lookup(mapping, item)
             cover == IF item.images # <<>> THEN item.images[1] ELSE None
         IN  render_template_string(item.name, Join(item.artists, <<",", " ">>),
                                    contributor, cover,
                                    Get(contrib_imgs, contributor, None))
    ELSE render_template_string(None, None, None, None, None)

\* Faulty variant: a page request runs the synchronisation again.
ShowNowPlaying_resyncs ==
    /\ pc = "serve"
    /\ \E answer \in Playbacks : current' = answer /\ rendered' = Page(answer)
    /\ pc' = "sync"
    /\ UNCHANGED <<env, table, mapping, ordered, exitMsg, steps, contrib_imgs,
                   playlist, playlist0, existing, offset, to_add, idx, calls,
                   runs, raw, norm, parsed, csvLoaded>>

\* GET /
ShowNowPlaying ==
    /\ pc = "serve"
    /\ \E answer \in Playbacks : current' = answer /\ rendered' = Page(answer)
    /\ UNCHANGED <<pc, env, table, mapping, ordered, exitMsg, steps,
                   contrib_imgs, playlist, playlist0, existing, offset, to_add,
                   idx, calls, runs, raw, norm, parsed, csvLoaded>>

-----------------------------------------------------------------------------
(* main *)

\* The environment main() reads.
\*   playlist_id: SPOTIFY_PLAYLIST_ID is set
\*   source:  "csv"            CSV_PATH is set
\*            "sheet"          no CSV_PATH; GOOGLE_SHEET_ID and one of
\*                             GOOGLE_SERVICE_JSON, GOOGLE_API_KEY are set
\*            "sheet_no_cred"  no CSV_PATH; GOOGLE_SHEET_ID alone
\*            "none"           neither CSV_PATH nor GOOGLE_SHEET_ID
\*   spotify: "env"       SPOTIFY_CLIENT_ID, _SECRET and _REDIRECT_URI are set
\*            "file"      one is not; the credentials file holds all three
\*            "bad_file"  one is not; the credentials file lacks a key
\*            "none"      one is not; there is no credentials file
Envs ==
    [playlist_id : BOOLEAN,
     source : {"csv", "sheet", "sheet_no_cred", "none"},
     spotify : {"env", "file", "bad_file", "none"}]

Unset == [err |-> "unset"]

\* the tables main() may find: names and links under a two-column header, and
\* one sheet without the link column
MainCells == {<<S_Alice, TrackUri(1)>>, <<<<>>, TrackUrl(1) \o S_query>>,
              <<S_Alice, TrackUri(2)>>}
MainTables ==
    {<<<<S_name, S_spotify_link>>>> \o rows : rows \in SeqsUpTo(MainCells, MaxRows)}
    \cup {<<<<S_name>>, <<S_Alice>>>>}

\* the remote playlist main() may find
MainPlaylists == SeqsUpTo({TrackItem(TrackUri(1)), NoTrackItem}, MaxRemote)

Exit(msg) ==
    /\ pc' = "exit"
    /\ exitMsg' = msg
    /\ UNCHANGED <<table, mapping, ordered, steps>>

Crash(exc, step) ==
    /\ pc' = "crashed"
    /\ exitMsg' = exc
    /\ steps' = Append(steps, step)
    /\ UNCHANGED <<mapping, ordered>>

Loaded(outcome, step) ==
    IF outcome.err # "none"
    THEN Crash(outcome.err, step)
    ELSE /\ mapping' = outcome.val.mapping
         /\ ordered' = outcome.val.ordered
         /\ steps' = Append(steps, step)
         /\ pc' = "init_spotify"
         /\ UNCHANGED exitMsg

\* required = ["SPOTIFY_PLAYLIST_ID"]; missing -> SystemExit
MainCheckEnv ==
    /\ pc = "main"
    /\ IF env.playlist_id
       THEN pc' = "load" /\ UNCHANGED <<table, mapping, ordered, exitMsg, steps>>
       ELSE Exit("Missing env vars")
    /\ UNCHANGED <<env, rendered, current, contrib_imgs, playlist, playlist0, existing,
                   offset, to_add, idx, calls, runs, raw, norm, parsed, csvLoaded>>

\* if csv_path: load_csv_mapping(...) else: the checks, load_sheet_mapping(...)
MainLoad ==
    /\ pc = "load"
    /\ \/ /\ env.source = "csv"
          /\ \E t \in MainTables :
                /\ table' = t
                /\ Loaded(load_csv_mapping(CsvFile(t)), "load_csv_mapping")
       \/ /\ env.source = "none"
          /\ Exit("Specify GOOGLE_SHEET_ID or CSV_PATH")
       \/ /\ env.source = "sheet_no_cred"
          /\ Exit("Provide GOOGLE_SERVICE_JSON or GOOGLE_API_KEY")
       \/ /\ env.source = "sheet"
          /\ \E t \in MainTables :
                /\ table' = t
                /\ Loaded(parse_sheet_rows(t), "load_sheet_mapping")
    /\ UNCHANGED <<env, rendered, current, contrib_imgs, playlist, playlist0, existing,
                   offset, to_add, idx, calls, runs, raw, norm, parsed, csvLoaded>>

\* init_spotify(): the client, SystemExit, or the KeyError of load_spotify_creds
init_spotify(spotify) ==
    CASE spotify \in {"env", "file"} -> Ok("sp")
      [] spotify = "bad_file" -> Raise("KeyError")
      [] OTHER -> Raise("SystemExit")

\* sp = init_spotify(os.getenv("SPOTIFY_CREDS_JSON"))
MainInitSpotify ==
    /\ pc = "init_spotify"
    /\ LET sp == init_spotify(env.spotify)
       IN  IF sp.err = "none"
           THEN /\ pc' = "sync"
                /\ steps' = Append(steps, "init_spotify")
                /\ UNCHANGED exitMsg
           ELSE IF sp.err = "SystemExit"
           THEN /\ pc' = "exit"
                /\ exitMsg' = "Spotify credentials missing"
                /\ UNCHANGED steps
           ELSE /\ pc' = "crashed"
                /\ exitMsg' = sp.err
                /\ UNCHANGED steps
    /\ UNCHANGED <<env, table, mapping, ordered, rendered, current, contrib_imgs,
                   playlist, playlist0, existing, offset, to_add, idx, calls,
                   runs, raw, norm, parsed, csvLoaded>>

\* app = create_app(sp, mapping, CONTRIBUTOR_IMAGES); app.run(...)
MainServe ==
    /\ pc = "sync_done"
    /\ pc' = "serve"
    /\ steps' = Append(steps, "app.run")
    /\ UNCHANGED <<env, table, mapping, ordered, exitMsg, rendered,
                   current, contrib_imgs, playlist, playlist0, existing, offset, to_add,
                   idx, calls, runs, raw, norm, parsed, csvLoaded>>

SyncIdle ==
    /\ playlist0 = <<>>
    /\ existing = <<>>
    /\ offset = 0
    /\ to_add = <<>>
    /\ idx = 0
    /\ calls = <<>>
    /\ runs = 0

OthersIdle ==
    /\ raw = <<>>
    /\ norm = <<>>
    /\ parsed = Unset
    /\ csvLoaded = Unset

Init ==
    /\ pc = "main"
    /\ env \in Envs
    /\ table = <<>>
    /\ mapping = EmptyMap
    /\ ordered = <<>>
    /\ exitMsg = ""
    /\ steps = <<>>
    /\ rendered = NoPage
    /\ current = NoPlayback
    /\ contrib_imgs = EmptyMap
    /\ playlist \in MainPlaylists
    /\ SyncIdle
    /\ OthersIdle

Next ==
    \/ MainCheckEnv
    \/ MainLoad
    \/ MainInitSpotify
    \/ SyncEnter
    \/ SyncReadPage
    \/ SyncDiff
    \/ SyncAddBatch
    \/ MainServe
    \/ ShowNowPlaying

Spec == Init /\ [][Next]_vars

-----------------------------------------------------------------------------
(* sync_playlist_once called with any desired list against any playlist, and
   called again with the same list against the playlist it left *)

SyncTracks == {TrackUri(1), TrackUri(2), TrackUri(3)}

\* spotify:track:1 .. spotify:track:n
TrackRun(n) == [k \in 1..n |-> TrackUri(k)]

DesiredLists ==
    SeqsUpTo(SyncTracks, MaxDesired)
    \cup {TrackRun(chunk), TrackRun(chunk + 1), TrackRun(2 * chunk + 1)}

SyncPlaylists ==
    SeqsUpTo({TrackItem(TrackUri(1)), TrackItem(TrackUri(2)), NoTrackItem}, MaxRemote)

MainIdle ==
    /\ env = [playlist_id |-> TRUE, source |-> "csv", spotify |-> "env"]
    /\ mapping = EmptyMap
    /\ exitMsg = ""
    /\ steps = <<>>
    /\ rendered = NoPage
    /\ current = NoPlayback
    /\ contrib_imgs = EmptyMap

InitSync ==
    /\ pc = "sync"
    /\ ordered \in DesiredLists
    /\ playlist \in SyncPlaylists
    /\ table = <<>>
    /\ MainIdle
    /\ SyncIdle
    /\ OthersIdle

\* the caller calls sync_playlist_once(sp, "pid", track_uris) once more
SyncAgain ==
    /\ pc = "sync_done"
    /\ runs < MaxRuns
    /\ pc' = "sync"
    /\ UNCHANGED <<env, table, mapping, ordered, exitMsg, steps, rendered,
                   current, contrib_imgs, playlist, playlist0, existing, offset, to_add,
                   idx, calls, runs, raw, norm, parsed, csvLoaded>>

NextSync ==
    \/ SyncEnter
    \/ SyncReadPage
    \/ SyncDiff
    \/ SyncAddBatch
    \/ SyncAgain

SpecSync == InitSync /\ [][NextSync]_vars

\* playlists of up to three pages, read for one of two desired lists
PagedPlaylists ==
    SeqsUpTo({TrackItem(TrackUri(1)), TrackItem(TrackUri(2)), NoTrackItem},
             MaxRemote + 2)

PagedDesired == {<<TrackUri(1), TrackUri(3)>>, <<TrackUri(2)>>}

InitPaged ==
    /\ pc = "sync"
    /\ ordered \in PagedDesired
    /\ playlist \in PagedPlaylists
    /\ table = <<>>
    /\ MainIdle
    /\ SyncIdle
    /\ OthersIdle

\* sync_playlist_once is sequential code: while it can take a step, it does
SpecSyncPaged == InitPaged /\ [][NextSync]_vars /\ WF_vars(NextSync)

-----------------------------------------------------------------------------
(* create_app(sp, mapping, contributor_image_mapping) with any mapping and
   any images, serving requests *)

AppMappings ==
    UNION {[D -> {S_Alice, S_Anonymous}] : D \in SUBSET {TrackUri(1), TrackUri(2)}}

AppImages ==
    UNION {[D -> {S_avatar}] : D \in SUBSET {S_Alice, S_someone}}

InitApp ==
    /\ pc = "serve"
    /\ env = [playlist_id |-> TRUE, source |-> "csv", spotify |-> "env"]
    /\ table = <<>>
    /\ mapping \in AppMappings
    /\ ordered = <<>>
    /\ exitMsg = ""
    /\ steps = <<>>
    /\ rendered = NoPage
    /\ current = NoPlayback
    /\ contrib_imgs \in AppImages
    /\ playlist = <<>>
    /\ SyncIdle
    /\ OthersIdle

NextApp == ShowNowPlaying

SpecApp == InitApp /\ [][NextApp]_vars

-----------------------------------------------------------------------------
(* the two loaders on one table *)

S_padded_name == <<" ","A","l"," ">>

\* what a cell under "name" and a cell under "spotify_link" may hold: blank,
\* a padded name, a URI, a padded web URL with a query, an album URL
NameCells == {<<>>, S_padded_name, TrackUri(1)}
LinkCells == {<<>>, TrackUri(1), <<" ">> \o TrackUrl(1) \o S_query, S_album_url}

LoaderHeaders ==
    {<<S_name, S_spotify_link>>, <<S_spotify_link, S_name>>,
     <<<<" ">> \o S_name, S_spotify_link>>, <<S_name>>, <<S_spotify_link>>}

\* rows of no, one and two cells
LoaderRows ==
    {<<>>, <<S_padded_name>>, <<TrackUri(1)>>}
    \cup {<<a, b>> : a \in NameCells, b \in LinkCells}

LoaderTables ==
    {<<>>} \cup {<<h>> \o rows : h \in LoaderHeaders,
                                 rows \in SeqsUpTo(LoaderRows, MaxRows)}

InitLoader ==
    /\ pc = "loader"
    /\ table \in LoaderTables
    /\ MainIdle
    /\ ordered = <<>>
    /\ playlist = <<>>
    /\ SyncIdle
    /\ raw = <<>>
    /\ norm = <<>>
    /\ parsed = Unset
    /\ csvLoaded = Unset

\* parse_sheet_rows(rows)
ParseSheetRows ==
    /\ pc = "loader"
    /\ parsed = Unset
    /\ parsed' = parse_sheet_rows(table)
    /\ UNCHANGED <<pc, env, table, mapping, ordered, exitMsg, steps, rendered,
                   current, contrib_imgs, playlist, playlist0, existing, offset, to_add,
                   idx, calls, runs, raw, norm, csvLoaded>>

\* load_csv_mapping(path), the file at path holding the table
LoadCsvMapping ==
    /\ pc = "loader"
    /\ parsed # Unset
    /\ csvLoaded = Unset
    /\ csvLoaded' = load_csv_mapping(CsvFile(table))
    /\ UNCHANGED <<pc, env, table, mapping, ordered, exitMsg, steps, rendered,
                   current, contrib_imgs, playlist, playlist0, existing, offset, to_add,
                   idx, calls, runs, raw, norm, parsed>>

NextLoader == ParseSheetRows \/ LoadCsvMapping

SpecLoader == InitLoader /\ [][NextLoader]_vars

-----------------------------------------------------------------------------
(* normalize_uri on two inputs *)

TrackIds == {Digits(1), Digits(2), Digits(12), <<"4","u","L">>}

S_intl == <<"/","i","n","t","l","-","d","e">>

\* the ways one track is written: the URI, the web URL, the web URL with a
\* locale segment
Forms(id) ==
    {S_spotify_track \o id,
     S_https \o S_open_spotify_com \o S_track_marker \o id,
     S_https \o S_open_spotify_com \o S_intl \o S_track_marker \o id}

\* ... each with or without a query suffix and surrounding whitespace
Writings(id) ==
    {lead \o form \o query \o trail :
        lead \in {<<>>, <<" ">>}, form \in Forms(id),
        query \in {<<>>, S_query}, trail \in {<<>>, <<" ", "\t">>}}

NormInputs == UNION {{[id |-> id, text |-> w] : w \in Writings(id)} : id \in TrackIds}

InitNormalize ==
    /\ pc = "normalize"
    /\ raw \in [1..2 -> NormInputs]
    /\ norm = <<>>
    /\ table = <<>>
    /\ MainIdle
    /\ ordered = <<>>
    /\ playlist = <<>>
    /\ SyncIdle
    /\ parsed = Unset
    /\ csvLoaded = Unset

\* normalize_uri(raw) for the next input
Normalize ==
    /\ pc = "normalize"
    /\ Len(norm) < Len(raw)
    /\ norm' = Append(norm, normalize_uri(raw[Len(norm) + 1].text))
    /\ UNCHANGED <<pc, env, table, mapping, ordered, exitMsg, steps, rendered,
                   current, contrib_imgs, playlist, playlist0, existing, offset, to_add,
                   idx, calls, runs, raw, parsed, csvLoaded>>

NextNormalize == Normalize

SpecNormalize == InitNormalize /\ [][NextNormalize]_vars

-----------------------------------------------------------------------------
(* Properties of sync_playlist_once (SpecSync) *)

\* the track URIs of the playlist as the running sync found it
RemoteExisting == Elems(TrackUris(playlist0))

\* the positions of `ordered` whose URI the playlist did not hold
MissingAt == {k \in 1..Len(ordered) : ordered[k] \notin RemoteExisting}

IsPrefix(p, q) == Len(p) <= Len(q) /\ SubSeq(q, 1, Len(p)) = p

\* C1: when sync_playlist_once has returned, the URIs it handed to
\* playlist_add_items, concatenated in call order, are the elements of
\* track_uris that the playlist did not hold, in the order they have in
\* track_uris; when the playlist held them all, no playlist_add_items call was
\* made.
C1_AddsExactlyMissing ==
    pc = "sync_done" =>
        LET added == Added(calls)
        IN  /\ Len(added) = Cardinality(MissingAt)
            /\ \A k \in MissingAt :
                  added[Cardinality({j \in MissingAt : j <= k})] = ordered[k]
            /\ (MissingAt = {} => AddCalls(calls) = {})

\* C1 witness: a first run that skipped a URI the playlist held and handed the
\* rest over in more than one call.
C1_Witness ==
    /\ pc = "sync_done"
    /\ runs = 1
    /\ Cardinality(AddCalls(calls)) >= 2
    /\ \E k \in 1..Len(ordered) : ordered[k] \in RemoteExisting
    /\ playlist0 # <<>>

\* C3: a run after the first, with the same list and against the playlist the
\* run before it left, makes no playlist_add_items call and leaves the
\* playlist as it was.
C3_SecondRunAddsNothing ==
    runs >= 2 =>
        /\ pc # "sync_add"
        /\ AddCalls(calls) = {}
        /\ playlist = playlist0

\* C3 witness: the second run has returned after a first run that appended
\* (no playlist starts with track 3 in it).
C3_Witness ==
    /\ runs = 2
    /\ pc = "sync_done"
    /\ TrackUri(3) \in Elems(TrackUris(playlist))
    /\ playlist[1] = NoTrackItem

\* C4: from the start of a sync on, the playlist as the sync found it is a
\* prefix of the playlist, and the sync makes no call other than
\* playlist_items and playlist_add_items.
C4_AppendOnly ==
    runs >= 1 =>
        /\ IsPrefix(playlist0, playlist)
        /\ \A k \in 1..Len(calls) :
              calls[k].op \in {"playlist_items", "playlist_add_items"}

\* C4 witness: between two batches, the playlist having held items before.
C4_Witness ==
    /\ pc = "sync_add"
    /\ idx > 0
    /\ playlist0 # <<>>
    /\ Len(playlist) > Len(playlist0)

IsAddCall(c) == c.op = "playlist_add_items"

IsReadCall(c) == c.op = "playlist_items"

\* C11: every playlist_add_items call carries at least 1 and at most 100
\* URIs, every call but the last exactly 100; the batches in call order make
\* up to_add, and there are ceil(len(to_add) / 100) calls.
C11_Batches ==
    pc \in {"sync_add", "sync_done"} =>
        LET adds == SelectSeq(calls, IsAddCall)
        IN  /\ \A k \in 1..Len(adds) :
                  Len(adds[k].uris) >= 1 /\ Len(adds[k].uris) <= 100
            /\ \A k \in 1..(Len(adds) - 1) : Len(adds[k].uris) = 100
            /\ pc = "sync_add" =>
                  /\ \A k \in 1..Len(adds) : Len(adds[k].uris) = 100
                  /\ IsPrefix(Added(calls), to_add)
                  /\ Len(Added(calls)) < Len(to_add)
            /\ pc = "sync_done" =>
                  /\ Added(calls) = to_add
                  /\ Len(adds) = (Len(to_add) + 99) \div 100

\* C11 witness: 201 URIs went out in three calls, the last one with a single
\* URI.
C11_Witness ==
    /\ pc = "sync_done"
    /\ Len(to_add) = 201
    /\ Len(SelectSeq(calls, IsAddCall)) = 3
    /\ Len(calls[Len(calls)].uris) = 1

\* the pages of a playlist of n items: ceil(n / PageLimit), one when n = 0
PagesOf(n) == IF n = 0 THEN 1 ELSE (n + PageLimit - 1) \div PageLimit

C12_Read ==
    runs >= 1 =>
        LET reads == SelectSeq(calls, IsReadCall)
        IN  \* the k-th read asks for the page after the k - 1 pages before it
            /\ \A k \in 1..Len(reads) : reads[k].offset = (k - 1) * PageLimit
            /\ Len(reads) <= PagesOf(Len(playlist0))
            \* the reads come first: nothing is appended while pages are read
            /\ \A k \in 1..Len(calls) :
                  IsAddCall(calls[k]) => k > Len(reads)
            /\ pc = "sync_read" =>
                  /\ calls = reads
                  /\ offset = Len(reads) * PageLimit
                  /\ to_add = <<>>
                  /\ playlist = playlist0
                  /\ existing = TrackUris(SubSeq(playlist0, 1,
                                    Min(offset, Len(playlist0))))
            \* once the loop is left every item has been read once
            /\ pc \in {"sync_diff", "sync_add", "sync_done"} =>
                  /\ Len(reads) = PagesOf(Len(playlist0))
                  /\ existing = TrackUris(playlist0)

\* C12: sync_playlist_once reads the playlist page by page from offset 0,
\* moving on by the items of each page that has a next-page cursor, and
\* appends nothing before the last page is read; the loop ends, and the
\* collected list then holds the URI of every item that has a track, each
\* item read once.
C12_ReadsFullyFirst == []C12_Read /\ (pc = "sync_read" ~> pc = "sync_diff")

\* C12 witness: a playlist of more than one page whose first item has no
\* track has been read to its end, and the sync went on to append.
C12_Witness ==
    /\ pc = "sync_add"
    /\ Len(playlist0) > PageLimit
    /\ playlist0[1] = NoTrackItem
    /\ playlist0[Len(playlist0)] # NoTrackItem
    /\ Len(SelectSeq(calls, IsReadCall)) >= 2
    /\ existing = TrackUris(playlist0)

-----------------------------------------------------------------------------
(* Properties of main (Spec) *)

\* C2: after parse_sheet_rows and sync_playlist_once, every track URI was
\* appended at most once, and only if the playlist did not hold it.
C2_NoDuplicates ==
    (pc \in {"sync_done", "serve"} /\ steps[1] = "load_sheet_mapping") =>
        \A u \in Elems(Added(calls)) :
            /\ Count(Added(calls), u) <= 1
            /\ u \notin RemoteExisting

\* what main() performs, in order, when nothing stops it
MainOrder(load) == <<load, "init_spotify", "sync_playlist_once", "app.run">>

C5_Order ==
    /\ runs <= 1
    /\ \E load \in {"load_csv_mapping", "load_sheet_mapping"} :
          IsPrefix(steps, MainOrder(load))
    /\ pc \in {"sync_read", "sync_diff", "sync_add", "sync_done"} =>
          (Len(steps) = 3 /\ runs = 1)
    /\ pc = "serve" => (Len(steps) = 4 /\ runs = 1)

C5_Request ==
    pc = "serve" =>
        /\ pc' = "serve"
        /\ UNCHANGED <<playlist, calls, runs, steps, table, mapping, ordered>>

\* C5: main loads the mapping, then runs sync_playlist_once, then serves;
\* sync_playlist_once is entered once; a page request makes no playlist call,
\* starts no sync and does not load the mapping again.
C5_SyncOnceBeforeServing == []C5_Order /\ [][C5_Request]_vars

\* C5 witness: a page with a track is served after a sync that appended.
C5_Witness ==
    /\ pc = "serve"
    /\ rendered.shown = "track"
    /\ AddCalls(calls) # {}
    /\ steps = MainOrder("load_sheet_mapping")

\* a required setting is absent: the playlist identifier, a mapping source
\* with its credential, or the Spotify client credentials
ConfigMissing ==
    \/ ~env.playlist_id
    \/ env.source \in {"none", "sheet_no_cred"}
    \/ env.spotify = "none"

\* C6: when a required setting is missing, main performs no part of startup:
\* no mapping is loaded, no playlist call is made, the server is not started.
C6_FailFast == ConfigMissing => (steps = <<>> /\ calls = <<>>)

-----------------------------------------------------------------------------
(* Properties of the loaders (SpecLoader) *)

HeaderOf(t) == [j \in 1..Len(t[1]) |-> Strip(t[1][j])]

HasBothColumns(t) ==
    /\ t # <<>>
    /\ \E j \in 1..Len(t[1]) : HeaderOf(t)[j] = S_name
    /\ \E j \in 1..Len(t[1]) : HeaderOf(t)[j] = S_spotify_link

\* the first column with the given header
ColumnOf(t, col) ==
    CHOOSE j \in 1..Len(t[1]) :
        /\ HeaderOf(t)[j] = col
        /\ \A i \in 1..(j - 1) : HeaderOf(t)[i] # col

\* the data rows that are long enough, have a link and a link that normalizes
KeptRows(t) ==
    {k \in 2..Len(t) :
        /\ Len(t[k]) >= ColumnOf(t, S_name)
        /\ Len(t[k]) >= ColumnOf(t, S_spotify_link)
        /\ Strip(t[k][ColumnOf(t, S_spotify_link)]) # <<>>
        /\ normalize_uri(Strip(t[k][ColumnOf(t, S_spotify_link)])).err = "none"}

NormLink(t, k) == normalize_uri(Strip(t[k][ColumnOf(t, S_spotify_link)])).val

TrimmedName(t, k) ==
    LET name == Strip(t[k][ColumnOf(t, S_name)])
    IN  IF name = <<>> THEN S_Anonymous ELSE name

\* C7: on a table whose header holds both columns parse_sheet_rows does not
\* fail; the ordered list is the normalized links of the rows that are not
\* short, blank-linked or malformed, in row order; the mapping's keys are
\* those links, each sent to the trimmed name ("Anonymous" when blank) of the
\* last such row with that link.
C7_ParseSheetRows ==
    (parsed # Unset /\ HasBothColumns(table)) =>
        LET kept == KeptRows(table)
            link == [k \in kept |-> NormLink(table, k)]
        IN  /\ parsed.err = "none"
            /\ Len(parsed.val.ordered) = Cardinality(kept)
            /\ \A k \in kept :
                  parsed.val.ordered[Cardinality({j \in kept : j <= k})] = link[k]
            /\ DOMAIN parsed.val.mapping = {link[k] : k \in kept}
            /\ \A k \in kept :
                  (\A j \in kept : j > k => link[j] # link[k])
                      => parsed.val.mapping[link[k]] = TrimmedName(table, k)

\* C7 witness: two rows name one track, written differently and with
\* different names; both are kept and the later name is the one mapped.
C7_Witness ==
    /\ parsed # Unset
    /\ HasBothColumns(table)
    /\ KeptRows(table) = {2, 3}
    /\ table[2] # table[3]
    /\ NormLink(table, 2) = NormLink(table, 3)
    /\ TrimmedName(table, 2) # TrimmedName(table, 3)
    /\ TrimmedName(table, 3) = S_Anonymous

\* C8: load_csv_mapping on the table as a delimited file ends as
\* parse_sheet_rows on the table does: the same mapping and list, or both fail.
C8_LoadersAgree == csvLoaded # Unset => csvLoaded = parsed

-----------------------------------------------------------------------------
(* Properties of normalize_uri (SpecNormalize) *)

\* C9: every writing of a track (URI or web URL, with or without a query
\* suffix and surrounding whitespace) normalizes to spotify:track:<id>, and
\* writings of two different ids normalize to different strings.
C9_OneIdentifierPerTrack ==
    /\ \A k \in 1..Len(norm) : norm[k] = Ok(S_spotify_track \o raw[k].id)
    /\ Len(norm) = 2 => (norm[1] = norm[2] <=> raw[1].id = raw[2].id)

\* C9 witness: a padded web URL with a query and the bare URI of one track
\* have been normalized to one string.
C9_Witness ==
    /\ Len(norm) = 2
    /\ raw[1].id = raw[2].id
    /\ raw[1].text = <<" ">> \o S_https \o S_open_spotify_com \o S_track_marker
                     \o raw[1].id \o S_query \o <<" ", "\t">>
    /\ raw[2].text = S_spotify_track \o raw[2].id
    /\ norm[1] = norm[2]

-----------------------------------------------------------------------------
(* Properties of the page handler (SpecApp) *)

C10_Page ==
    rendered.shown # "nothing" =>
        IF ~current.present \/ ~current.is_playing \/ ~current.has_item
        THEN rendered.shown = "placeholder"
        ELSE /\ rendered.shown = "track"
             /\ rendered.contributor =
                   (IF current.item.uri \in DOMAIN mapping
                    THEN mapping[current.item.uri] ELSE S_someone)
             /\ rendered.contrib_img =
                   (IF rendered.contributor \in DOMAIN contrib_imgs
                    THEN contrib_imgs[rendered.contributor] ELSE None)

C10_MappingKept == pc = "serve" => mapping' = mapping

====
